---- MODULE Spec2Model ----
(***************************************************************************)
(* The taxi emissions pipeline: load.py (raw tables from the data files),  *)
(* clean.py (unified view, stage, dedup and clean tables, verification),   *)
(* the feature derivation that builds trips_2024_transformed, and          *)
(* analysis.py (largest trip, heavy/light buckets, monthly series).        *)
(*                                                                         *)
(* A nullable SQL value is a set with at most one element: {} is NULL and  *)
(* {v} is the value v.  A comparison in a WHERE clause is TRUE only when   *)
(* both sides are not NULL, which is \E x \in col : ... here.              *)
(* Timestamps are seconds since 2024-01-01 00:00:00 (a Monday).  DOUBLE    *)
(* columns hold whole numbers; trip_co2_kgs is kept in thousandths of a kg *)
(* and an average is kept as an exact reduced fraction.                    *)
(***************************************************************************)
EXTENDS Integers, Sequences, FiniteSets, TLC

VARIABLES
    files,       \* the data directory: what the glob of each input finds
    db,          \* emissions.duckdb: one field per table or view
    pc,          \* position of the running script, "idle" between scripts
    outcome,     \* how the last script ended
    runs,        \* number of scripts started
    before,      \* db as it was when the running (or last) script started
    cleanings,   \* raw tables and row set of the last two completed cleanings
    checks,      \* clean.py: the verification counts it printed
    report,      \* analysis.py: the last result set it printed
    series       \* analysis.py: the monthly series dictionary

vars == <<files, db, pc, outcome, runs, before, cleanings, checks, report, series>>

\* ------------------------------------------------------------------ bounds

MaxRaw == 2

MaxRuns == 2

MaxTrips == 3

\* ------------------------------------------------------------- SQL values

NULL == {}

Val(x) == {x}

SecondsPerDay == 86400

MaxTripMiles == 100

T0900 == 9 * 3600

T0905 == T0900 + 5 * 60

T0930 == T0900 + 30 * 60

\* The value of a column known not to be NULL.
TheVal(col) == CHOOSE x \in col : TRUE

Range(s) == {s[i] : i \in 1..Len(s)}

\* ROW_NUMBER() OVER (PARTITION BY ... ORDER BY ...) on n rows: every numbering
\* that counts each partition from 1 and respects the ORDER BY; rows the ORDER
\* BY does not separate may be numbered either way.
\* samePart and ordered are the pairs of row indices in one partition and
\* those the ORDER BY puts in that order.
RowNumberings(n, samePart, ordered) ==
    {f \in [1..n -> 1..n] :
        /\ \A i \in 1..n : f[i] <= Cardinality({j \in 1..n : <<i, j>> \in samePart})
        /\ \A i, j \in 1..n :
              (i # j /\ <<i, j>> \in samePart) =>
                  /\ f[i] # f[j]
                  /\ <<i, j>> \in ordered => f[i] < f[j]}

\* A table that does not exist, and a table holding rows.
Absent == [exists |-> FALSE, rows |-> <<>>]

Table(rows) == [exists |-> TRUE, rows |-> rows]

\* ------------------------------------------------------------ input data

\* One ride as the parquet files record it, before the class-specific names.
Ride(pu, do, pass, dist, fare) ==
    [pickup |-> pu, dropoff |-> do, passenger_count |-> pass,
     trip_distance |-> dist, PULocationID |-> Val(132), DOLocationID |-> Val(236),
     fare_amount |-> fare, tip_amount |-> Val(2), total_amount |-> Val(12),
     payment_type |-> Val(1)]

BaseRide == Ride(Val(T0900), Val(T0930), Val(1), Val(50), Val(10))

YellowRow(t) ==
    [tpep_pickup_datetime |-> t.pickup, tpep_dropoff_datetime |-> t.dropoff,
     passenger_count |-> t.passenger_count, trip_distance |-> t.trip_distance,
     PULocationID |-> t.PULocationID, DOLocationID |-> t.DOLocationID,
     fare_amount |-> t.fare_amount, tip_amount |-> t.tip_amount,
     total_amount |-> t.total_amount, payment_type |-> t.payment_type]

GreenRow(t) ==
    [lpep_pickup_datetime |-> t.pickup, lpep_dropoff_datetime |-> t.dropoff,
     passenger_count |-> t.passenger_count, trip_distance |-> t.trip_distance,
     PULocationID |-> t.PULocationID, DOLocationID |-> t.DOLocationID,
     fare_amount |-> t.fare_amount, tip_amount |-> t.tip_amount,
     total_amount |-> t.total_amount, payment_type |-> t.payment_type]

\* The rides the cleaning inputs are drawn from: the base ride and the base
\* ride with one column changed to each value of interest.
YellowRides ==
    <<BaseRide,
      [BaseRide EXCEPT !.pickup = Val(T0905)],
      [BaseRide EXCEPT !.pickup = NULL],
      [BaseRide EXCEPT !.dropoff = Val(T0900)],
      [BaseRide EXCEPT !.dropoff = Val(T0900 + SecondsPerDay)],
      [BaseRide EXCEPT !.dropoff = Val(T0900 + SecondsPerDay + 1)],
      [BaseRide EXCEPT !.dropoff = Val(T0900 - 60)],
      [BaseRide EXCEPT !.dropoff = NULL],
      [BaseRide EXCEPT !.passenger_count = NULL],
      [BaseRide EXCEPT !.passenger_count = Val(0)],
      [BaseRide EXCEPT !.passenger_count = Val(-1)],
      [BaseRide EXCEPT !.trip_distance = NULL],
      [BaseRide EXCEPT !.trip_distance = Val(0)],
      [BaseRide EXCEPT !.trip_distance = Val(-1)],
      [BaseRide EXCEPT !.trip_distance = Val(MaxTripMiles)],
      [BaseRide EXCEPT !.trip_distance = Val(MaxTripMiles + 1)],
      [BaseRide EXCEPT !.fare_amount = NULL]>>

GreenRides ==
    <<BaseRide,
      [BaseRide EXCEPT !.pickup = Val(T0905)],
      [BaseRide EXCEPT !.passenger_count = Val(0)],
      [BaseRide EXCEPT !.trip_distance = Val(2 * MaxTripMiles)]>>

\* The sequences of at most n rides of a catalogue, in catalogue order
\* (repeats allowed: a file may hold the same ride several times).
RideLists(catalogue, n) ==
    {[i \in 1..Len(ix) |-> catalogue[ix[i]]] :
        ix \in UNION {{s \in [1..k -> 1..Len(catalogue)] :
                          \A i \in 1..(k - 1) : s[i] <= s[i + 1]} : k \in 0..n}}

\* The sequences of at most n different rides of a catalogue.
DistinctRideLists(catalogue, n) ==
    {l \in RideLists(catalogue, n) : \A i, j \in 1..Len(l) : i # j => l[i] # l[j]}

\* The rows of a yellow and of a green file holding the given rides.
YellowRows(l) == [i \in 1..Len(l) |-> YellowRow(l[i])]

GreenRows(l) == [i \in 1..Len(l) |-> GreenRow(l[i])]

Missing == [present |-> FALSE, rows |-> <<>>]

Found(rows) == [present |-> TRUE, rows |-> rows]

EmissionsCsv == <<[vehicle_type |-> "yellow", co2_grams_per_mile |-> 200],
                  [vehicle_type |-> "green", co2_grams_per_mile |-> 300]>>

\* ---------------------------------------------------------------- load.py

\* DROP TABLE IF EXISTS t
DropTable(d, t) == [d EXCEPT ![t] = Absent]

\* CREATE TABLE t AS SELECT * FROM read_parquet / read_csv_auto: the rows the
\* glob finds.
CreateTableAs(d, t, rows) == [d EXCEPT ![t] = Table(rows)]

\* ---------------------------------------------------------------- clean.py

\* The yellow branch of the view trips_2024_unified_raw.
UnifyYellow(r) ==
    [taxi_color |-> "yellow",
     pickup_datetime |-> r.tpep_pickup_datetime,
     dropoff_datetime |-> r.tpep_dropoff_datetime,
     passenger_count |-> r.passenger_count, trip_distance |-> r.trip_distance,
     pickup_location_id |-> r.PULocationID, dropoff_location_id |-> r.DOLocationID,
     fare_amount |-> r.fare_amount, tip_amount |-> r.tip_amount,
     total_amount |-> r.total_amount, payment_type |-> r.payment_type]

\* The green branch of the view.
UnifyGreen(r) ==
    [taxi_color |-> "green",
     pickup_datetime |-> r.lpep_pickup_datetime,
     dropoff_datetime |-> r.lpep_dropoff_datetime,
     passenger_count |-> r.passenger_count, trip_distance |-> r.trip_distance,
     pickup_location_id |-> r.PULocationID, dropoff_location_id |-> r.DOLocationID,
     fare_amount |-> r.fare_amount, tip_amount |-> r.tip_amount,
     total_amount |-> r.total_amount, payment_type |-> r.payment_type]

\* SELECT ... FROM yellow_trips_2024 UNION ALL SELECT ... FROM green_trips_2024
UnifiedRaw(yellow, green) ==
    [i \in 1..Len(yellow) |-> UnifyYellow(yellow[i])]
        \o [i \in 1..Len(green) |-> UnifyGreen(green[i])]

\* CAST(x AS INTEGER) of a whole-number column whose values fit 32 bits (all
\* the values of the files here do): NULL stays NULL, a value stays itself.
CastInteger(v) == {x \in v : x \in Int}

\* date_diff('second', a, b): NULL when either side is NULL.
DateDiffSecond(a, b) == {y - x : x \in a, y \in b}

\* One row of trips_2024_stage.  The timestamp and DOUBLE columns already have
\* the type they are cast to.
StageRow(u) ==
    [taxi_color |-> u.taxi_color,
     pickup_datetime |-> u.pickup_datetime,
     dropoff_datetime |-> u.dropoff_datetime,
     passenger_count |-> CastInteger(u.passenger_count),
     trip_distance_miles |-> u.trip_distance,
     pickup_location_id |-> CastInteger(u.pickup_location_id),
     dropoff_location_id |-> CastInteger(u.dropoff_location_id),
     fare_amount |-> u.fare_amount,
     tip_amount |-> u.tip_amount,
     total_amount |-> u.total_amount,
     payment_type |-> CastInteger(u.payment_type),
     duration_seconds |-> DateDiffSecond(u.pickup_datetime, u.dropoff_datetime)]

StageRows(unified) == [i \in 1..Len(unified) |-> StageRow(unified[i])]

\* The dedup partition without fare_amount.
DedupKeyNoFare(r) ==
    <<r.taxi_color, r.pickup_datetime, r.dropoff_datetime,
      r.pickup_location_id, r.dropoff_location_id,
      r.passenger_count, r.trip_distance_miles,
      r.tip_amount, r.total_amount, r.payment_type>>

\* The dedup partition without pickup_datetime.
DedupKeyNoPickup(r) ==
    <<r.taxi_color, r.dropoff_datetime,
      r.pickup_location_id, r.dropoff_location_id,
      r.passenger_count, r.trip_distance_miles,
      r.fare_amount, r.tip_amount, r.total_amount, r.payment_type>>

\* The dedup partition without dropoff_datetime.
DedupKeyNoDropoff(r) ==
    <<r.taxi_color, r.pickup_datetime,
      r.pickup_location_id, r.dropoff_location_id,
      r.passenger_count, r.trip_distance_miles,
      r.fare_amount, r.tip_amount, r.total_amount, r.payment_type>>

\* PARTITION BY of the dedup window.
DedupKey(r) ==
    <<r.taxi_color, r.pickup_datetime, r.dropoff_datetime,
      r.pickup_location_id, r.dropoff_location_id,
      r.passenger_count, r.trip_distance_miles,
      r.fare_amount, r.tip_amount, r.total_amount, r.payment_type>>

\* ORDER BY pickup_datetime of the dedup window (ascending, NULLs last).
DedupOrderBefore(a, b) ==
    \/ \E x \in a.pickup_datetime : \E y \in b.pickup_datetime : x < y
    \/ a.pickup_datetime # NULL /\ b.pickup_datetime = NULL

\* The rn columns the window may compute over the stage rows.
DedupNumberings(stage) ==
    LET rows == 1..Len(stage)
    IN  RowNumberings(Len(stage),
                      {<<i, j>> \in rows \X rows : DedupKey(stage[i]) = DedupKey(stage[j])},
                      {<<i, j>> \in rows \X rows : DedupOrderBefore(stage[i], stage[j])})

\* WHERE rn > 1: the repeats instead of the first row.
KeepRankRepeats(rn) == rn > 1

\* WHERE rn = 1
KeepRank(rn) == rn = 1

\* SELECT * FROM ranked WHERE rn = 1: the stage rows with their rn column.
DedupRows(stage, rn) ==
    SelectSeq([i \in 1..Len(stage) |-> stage[i] @@ [rn |-> rn[i]]],
              LAMBDA r : KeepRank(r.rn))

\* The WHERE clause with trip_distance_miles >= 0 for > 0.
CleaningRulesZeroMiles(r) ==
    /\ \E x \in r.passenger_count : x > 0
    /\ \E x \in r.trip_distance_miles : x >= 0
    /\ \E x \in r.trip_distance_miles : x <= MaxTripMiles
    /\ \E x \in r.duration_seconds : x >= 0
    /\ \E x \in r.duration_seconds : x <= SecondsPerDay

\* The WHERE clause of trips_2024_clean.
CleaningRules(r) ==
    /\ \E x \in r.passenger_count : x > 0
    /\ \E x \in r.trip_distance_miles : x > 0
    /\ \E x \in r.trip_distance_miles : x <= MaxTripMiles
    /\ \E x \in r.duration_seconds : x >= 0
    /\ \E x \in r.duration_seconds : x <= SecondsPerDay

CleanRows(dedup) == SelectSeq(dedup, CleaningRules)

\* GROUP BY 1..11 of the duplicates_remaining check.
CheckGroupKey(r) ==
    <<r.taxi_color, r.pickup_datetime, r.dropoff_datetime,
      r.pickup_location_id, r.dropoff_location_id,
      r.passenger_count, r.trip_distance_miles,
      r.fare_amount, r.tip_amount, r.total_amount, r.payment_type>>

\* The verification counts over trips_2024_clean.
VerificationChecks(clean) ==
    LET rows == 1..Len(clean)
    IN  [duplicates_remaining |->
            Cardinality({k \in {CheckGroupKey(r) : r \in Range(clean)} :
                Cardinality({i \in rows : CheckGroupKey(clean[i]) = k}) > 1}),
         zero_passengers |->
            Cardinality({i \in rows : clean[i].passenger_count = Val(0)}),
         zero_miles |->
            Cardinality({i \in rows : clean[i].trip_distance_miles = Val(0)}),
         over_100_miles |->
            Cardinality({i \in rows : \E x \in clean[i].trip_distance_miles : x > MaxTripMiles}),
         over_1_day |->
            Cardinality({i \in rows : \E x \in clean[i].duration_seconds : x > SecondsPerDay}),
         negative_duration |->
            Cardinality({i \in rows : \E x \in clean[i].duration_seconds : x < 0}),
         total_clean |-> Len(clean)]

NoChecks ==
    [duplicates_remaining |-> 0, zero_passengers |-> 0, zero_miles |-> 0,
     over_100_miles |-> 0, over_1_day |-> 0, negative_duration |-> 0,
     total_clean |-> 0]

\* What a completed cleaning leaves behind: the raw tables it read and the set
\* of rows of trips_2024_clean.
Cleaning(d) ==
    [raw |-> <<d.yellow_trips_2024, d.green_trips_2024>>,
     rows |-> Range(d.trips_2024_clean.rows)]

\* ------------------------------------------------------------ the database

FreshDb ==
    [yellow_trips_2024 |-> Absent, green_trips_2024 |-> Absent,
     vehicle_emissions |-> Absent, trips_2024_unified_raw |-> Absent,
     trips_2024_stage |-> Absent, trips_2024_dedup |-> Absent,
     trips_2024_clean |-> Absent, trips_2024_transformed |-> Absent]

\* The database after load.py and clean.py completed on the given files.
CleanedDb(fs) ==
    LET stage == StageRows(UnifiedRaw(fs.yellow.rows, fs.green.rows))
        rn == CHOOSE f \in DedupNumberings(stage) : TRUE
        dedup == DedupRows(stage, rn)
    IN  [yellow_trips_2024 |-> Table(fs.yellow.rows),
         green_trips_2024 |-> Table(fs.green.rows),
         vehicle_emissions |-> Table(fs.emissions.rows),
         trips_2024_unified_raw |-> Table(<<>>),
         trips_2024_stage |-> Table(stage),
         trips_2024_dedup |-> Table(dedup),
         trips_2024_clean |-> Table(CleanRows(dedup)),
         trips_2024_transformed |-> Absent]

\* The files of an earlier run, whose tables the database may still hold.
EarlierFiles ==
    [yellow |-> Found(YellowRows(<<BaseRide, BaseRide, [BaseRide EXCEPT !.dropoff = Val(T0900)]>>)),
     green |-> Found(GreenRows(<<[BaseRide EXCEPT !.trip_distance = Val(2 * MaxTripMiles)]>>)),
     emissions |-> Found(EmissionsCsv)]

\* The data directories of the cleaning runs: at most MaxRaw rides over
\* the two classes; an input whose files are missing holds no rows.
CleaningFiles ==
    {[yellow |-> y, green |-> g, emissions |-> e] :
        y \in {Missing} \cup {Found(YellowRows(l)) : l \in RideLists(YellowRides, MaxRaw)},
        g \in {Missing} \cup {Found(GreenRows(l)) : l \in RideLists(GreenRides, MaxRaw)},
        e \in {Missing, Found(EmissionsCsv)}}

\* ------------------------------------------------- feature derivation

SecondsPerHour == 3600

\* Days of 2024 before the end of each month.
DaysToMonthEnd == <<31, 60, 91, 121, 152, 182, 213, 244, 274, 305, 335, 366>>

HourOfDay(t) == (t \div SecondsPerHour) % 24

\* 0 = Sunday; 2024-01-01 is a Monday.
DayOfWeek(t) == ((t \div SecondsPerDay) + 1) % 7

\* Weeks start on Sunday, the days before the first Sunday are week 1.
WeekOfYear(t) == (((t \div SecondsPerDay) + 1) \div 7) + 1

MonthOfYear(t) == 1 + Cardinality({m \in 1..12 : DaysToMonthEnd[m] <= t \div SecondsPerDay})

\* The per-mile factor rows of a class.
FactorRows(emissions, color) ==
    {e \in Range(emissions) : e.vehicle_type = color}

\* A clean row extended with trip_co2_kgs (thousandths of a kg: miles times
\* grams per mile) and the four buckets of its pickup timestamp.
TransformRow(r, emissions) ==
    r @@ [trip_co2_kgs |->
              {x * e.co2_grams_per_mile :
                  x \in r.trip_distance_miles, e \in FactorRows(emissions, r.taxi_color)},
          hour_of_day |-> {HourOfDay(t) : t \in r.pickup_datetime},
          day_of_week |-> {DayOfWeek(t) : t \in r.pickup_datetime},
          week_of_year |-> {WeekOfYear(t) : t \in r.pickup_datetime},
          month_of_year |-> {MonthOfYear(t) : t \in r.pickup_datetime}]

\* A trip whose class has no factor row makes the derivation fail.
TransformRaises(clean, emissions) ==
    \E r \in Range(clean) : FactorRows(emissions, r.taxi_color) = {}

TransformRows(clean, emissions) ==
    [i \in 1..Len(clean) |-> TransformRow(clean[i], emissions)]

\* ------------------------------------------------------------- analysis.py

\* The classes in the order ORDER BY taxi_color gives them.
Colors == <<"green", "yellow">>

RECURSIVE SumOver(_, _)
\* The sum of f[x] for x in the finite set S.
SumOver(S, f) ==
    IF S = {} THEN 0
    ELSE LET x == CHOOSE y \in S : TRUE IN f[x] + SumOver(S \ {x}, f)

\* SUM(col) over the rows of T at the indices I: NULLs are skipped, no value
\* at all gives NULL.
SqlSum(T, I, col) ==
    LET J == {i \in I : T[i][col] # NULL}
    IN  IF J = {} THEN NULL ELSE Val(SumOver(J, [i \in J |-> TheVal(T[i][col])]))

RECURSIVE Gcd(_, _)
Gcd(a, b) == IF b = 0 THEN a ELSE Gcd(b, a % b)

\* An exact quotient, in lowest terms.
Fraction(n, d) == LET g == Gcd(n, d) IN [num |-> n \div g, den |-> d \div g]

FracLess(a, b) == a.num * b.den < b.num * a.den

\* AVG(col) over the rows of T at the indices I.
SqlAvg(T, I, col) ==
    LET J == {i \in I : T[i][col] # NULL}
    IN  IF J = {} THEN NULL
        ELSE Val(Fraction(SumOver(J, [i \in J |-> TheVal(T[i][col])]), Cardinality(J)))

\* MAX over nullable whole numbers: NULLs are skipped, no value gives NULL.
SqlMax(vals) ==
    LET U == UNION vals IN {x \in U : \A y \in U : ~(x < y)}

\* MAX over nullable averages.
SqlMaxAvg(vals) ==
    LET U == UNION vals IN {x \in U : \A y \in U : ~FracLess(x, y)}

\* A set as a sequence, in some order.
SeqOfSet(S) ==
    CHOOSE q \in [1..Cardinality(S) -> S] : \A x \in S : \E i \in DOMAIN q : q[i] = x

\* The largest-trip window ordered ascending.
LargestOrderAscending(a, b) ==
    \/ \E x \in a.trip_co2_kgs : \E y \in b.trip_co2_kgs : x < y
    \/ a.trip_co2_kgs # NULL /\ b.trip_co2_kgs = NULL

\* ORDER BY trip_co2_kgs DESC of the largest-trip window (NULLs last).
LargestOrderBefore(a, b) ==
    \/ \E x \in a.trip_co2_kgs : \E y \in b.trip_co2_kgs : x > y
    \/ a.trip_co2_kgs # NULL /\ b.trip_co2_kgs = NULL

\* The rn columns the window of largest_sql may compute.
LargestNumberings(T) ==
    LET rows == 1..Len(T)
    IN  RowNumberings(Len(T),
                      {<<i, j>> \in rows \X rows : T[i].taxi_color = T[j].taxi_color},
                      {<<i, j>> \in rows \X rows : LargestOrderBefore(T[i], T[j])})

\* The result of largest_sql: the rn = 1 row of each class, by taxi_color.
LargestRows(T, rn) ==
    LET OfColor(c) ==
            SeqOfSet({[taxi_color |-> T[i].taxi_color,
                       trip_co2_kgs |-> T[i].trip_co2_kgs,
                       trip_distance_miles |-> T[i].trip_distance_miles,
                       pickup_datetime |-> T[i].pickup_datetime,
                       dropoff_datetime |-> T[i].dropoff_datetime] :
                      i \in {j \in 1..Len(T) : T[j].taxi_color = c /\ rn[j] = 1}})
    IN  OfColor(Colors[1]) \o OfColor(Colors[2])

\* The CTE stats of heavy_light: one row per (taxi_color, column value).
Stats(T, column) ==
    SeqOfSet({[taxi_color |-> c, k |-> k,
               avg_co2 |-> SqlAvg(T, {i \in 1..Len(T) :
                                         T[i].taxi_color = c /\ T[i][column] = k},
                                  "trip_co2_kgs")] :
              <<c, k>> \in {<<T[i].taxi_color, T[i][column]>> : i \in 1..Len(T)}})

\* The rmax window ordered ascending.
AvgDescAscending(a, b) ==
    \/ \E x \in a.avg_co2 : \E y \in b.avg_co2 : FracLess(x, y)
    \/ a.avg_co2 # NULL /\ b.avg_co2 = NULL

\* ORDER BY avg_co2 DESC (NULLs last)
AvgDescBefore(a, b) ==
    \/ \E x \in a.avg_co2 : \E y \in b.avg_co2 : FracLess(y, x)
    \/ a.avg_co2 # NULL /\ b.avg_co2 = NULL

\* ORDER BY avg_co2 ASC (NULLs last)
AvgAscBefore(a, b) ==
    \/ \E x \in a.avg_co2 : \E y \in b.avg_co2 : FracLess(x, y)
    \/ a.avg_co2 # NULL /\ b.avg_co2 = NULL

RmaxNumberings(st) ==
    LET rows == 1..Len(st)
    IN  RowNumberings(Len(st),
                      {<<i, j>> \in rows \X rows : st[i].taxi_color = st[j].taxi_color},
                      {<<i, j>> \in rows \X rows : AvgDescBefore(st[i], st[j])})

RminNumberings(st) ==
    LET rows == 1..Len(st)
    IN  RowNumberings(Len(st),
                      {<<i, j>> \in rows \X rows : st[i].taxi_color = st[j].taxi_color},
                      {<<i, j>> \in rows \X rows : AvgAscBefore(st[i], st[j])})

\* The label maps of the four heavy_light calls and label_map.get(int(k), k).
HourLabels == [i \in 0..23 |-> i + 1]

DOW_NAME == [i \in 0..6 |-> <<"Sun", "Mon", "Tue", "Wed", "Thu", "Fri", "Sat">>[i + 1]]

MONTH_NAME ==
    [i \in 1..12 |-> <<"Jan", "Feb", "Mar", "Apr", "May", "Jun",
                       "Jul", "Aug", "Sep", "Oct", "Nov", "Dec">>[i]]

NoLabels == [i \in {} |-> i]

Label(label_map, k) ==
    IF TheVal(k) \in DOMAIN label_map THEN label_map[TheVal(k)] ELSE TheVal(k)

\* The rows heavy_light prints: per class, the aggregates over ranked and the
\* labels of the two bucket values.
HeavyLightRows(st, rmax, rmin, label_map) ==
    LET OfColor(c) ==
            LET I == {i \in 1..Len(st) : st[i].taxi_color = c}
                heavy_k == SqlMax({st[i].k : i \in {j \in I : rmax[j] = 1}})
                heavy_v == SqlMaxAvg({st[i].avg_co2 : i \in {j \in I : rmax[j] = 1}})
                light_k == SqlMax({st[i].k : i \in {j \in I : rmin[j] = 1}})
                light_v == SqlMaxAvg({st[i].avg_co2 : i \in {j \in I : rmin[j] = 1}})
            IN  IF I = {} THEN <<>>
                ELSE <<[taxi_color |-> c,
                        heaviest_k |-> heavy_k, heaviest_avg |-> heavy_v,
                        lightest_k |-> light_k, lightest_avg |-> light_v,
                        hk |-> Label(label_map, heavy_k),
                        lk |-> Label(label_map, light_k)]>>
    IN  OfColor(Colors[1]) \o OfColor(Colors[2])

\* The monthly query: SUM(trip_co2_kgs) per (taxi_color, month_of_year),
\* ORDER BY month_of_year, taxi_color (a NULL month last).
MonthlyRows(T) ==
    LET Group(c, mo) ==
            LET I == {i \in 1..Len(T) : T[i].taxi_color = c /\ T[i].month_of_year = mo}
            IN  IF I = {} THEN <<>>
                ELSE <<[taxi_color |-> c, month_of_year |-> mo,
                        total_co2 |-> SqlSum(T, I, "trip_co2_kgs")]>>
        Month(mo) == Group(Colors[1], mo) \o Group(Colors[2], mo)
        From[m \in 1..13] ==
            IF m = 13 THEN Month(NULL) ELSE Month(Val(m)) \o From[m + 1]
    IN  From[1]

\* [0.0] * 12
ZeroSeries == [i \in 0..11 |-> 0]

\* The list position int(mo), one too far.
SeriesIndexOffByOne(mo) == mo

\* The list position int(mo) - 1.
SeriesIndex(mo) == mo - 1

\* l[i] = v on a Python list of 12 elements: a negative index counts from the
\* end.
ListSet(l, i, v) == [l EXCEPT ![IF i < 0 THEN i + 12 ELSE i] = v]

EmptyDict == [c \in {} |-> ZeroSeries]

\* series[color] of the defaultdict: the entry, created on first use.
DictEntry(d, c) == IF c \in DOMAIN d THEN d[c] ELSE ZeroSeries

\* series.get(color, [0.0] * 12)
DictGet(d, c) == IF c \in DOMAIN d THEN d[c] ELSE ZeroSeries

RECURSIVE FillSeries(_, _, _)
\* The loop over the monthly rows from row i on: rows whose month is None are
\* skipped.
FillSeries(d, monthly, i) ==
    IF i > Len(monthly) THEN d
    ELSE LET row == monthly[i]
         IN  IF row.month_of_year = NULL THEN FillSeries(d, monthly, i + 1)
             ELSE FillSeries(
                    (row.taxi_color :>
                        ListSet(DictEntry(d, row.taxi_color),
                                SeriesIndex(TheVal(row.month_of_year)),
                                TheVal(row.total_co2))) @@ d,
                    monthly, i + 1)

NoSeries == [dict |-> EmptyDict, y_yellow |-> <<>>, y_green |-> <<>>]

NoReport == [kind |-> "none", rows |-> <<>>]

Init ==
    /\ files \in {f \in CleaningFiles : Len(f.yellow.rows) + Len(f.green.rows) <= MaxRaw}
    /\ db \in {FreshDb, CleanedDb(EarlierFiles)}
    /\ pc = "idle"
    /\ outcome = "none"
    /\ runs = 0
    /\ before = db
    /\ cleanings = IF db = FreshDb THEN <<>> ELSE <<Cleaning(db)>>
    /\ checks = NoChecks
    /\ report = NoReport
    /\ series = NoSeries

\* ---- load.py: load_parquet_files.  The six statements of the one execute()
\* call run one after the other, each committed as it completes.

LoadConnect ==
    /\ pc = "idle" /\ runs < MaxRuns
    /\ pc' = "load_drop_yellow"
    /\ runs' = runs + 1
    /\ before' = db
    /\ outcome' = "running"
    /\ UNCHANGED <<files, db, cleanings, checks, report, series>>

LoadDropYellow ==
    /\ pc = "load_drop_yellow"
    /\ db' = DropTable(db, "yellow_trips_2024")
    /\ pc' = "load_drop_green"
    /\ UNCHANGED <<files, outcome, runs, before, cleanings, checks, report, series>>

LoadDropGreen ==
    /\ pc = "load_drop_green"
    /\ db' = DropTable(db, "green_trips_2024")
    /\ pc' = "load_drop_emissions"
    /\ UNCHANGED <<files, outcome, runs, before, cleanings, checks, report, series>>

LoadDropEmissions ==
    /\ pc = "load_drop_emissions"
    /\ db' = DropTable(db, "vehicle_emissions")
    /\ pc' = "load_create_yellow"
    /\ UNCHANGED <<files, outcome, runs, before, cleanings, checks, report, series>>

\* CREATE TABLE t AS SELECT * FROM <file>: raises when the glob finds no file,
\* which the except clause prints before the connection is closed.
LoadCreate(at, t, file, next) ==
    /\ pc = at
    /\ IF file.present
          THEN /\ db' = CreateTableAs(db, t, file.rows)
               /\ pc' = next
               /\ outcome' = IF next = "idle" THEN "load_ok" ELSE outcome
          ELSE /\ db' = db
               /\ pc' = "idle"
               /\ outcome' = "load_error"
    /\ UNCHANGED <<files, runs, before, cleanings, checks, report, series>>

LoadCreateYellow ==
    LoadCreate("load_create_yellow", "yellow_trips_2024", files.yellow, "load_create_green")

LoadCreateGreen ==
    LoadCreate("load_create_green", "green_trips_2024", files.green, "load_create_emissions")

\* The last statement; the row counts printed after it change nothing.
LoadCreateEmissions ==
    LoadCreate("load_create_emissions", "vehicle_emissions", files.emissions, "idle")

\* ---- clean.py: main.  Each execute() is one statement, committed as it
\* completes; any exception is logged by the except clause and main returns.

CleanConnect ==
    /\ pc = "idle" /\ runs < MaxRuns
    /\ pc' = "clean_view"
    /\ runs' = runs + 1
    /\ before' = db
    /\ outcome' = "running"
    /\ UNCHANGED <<files, db, cleanings, checks, report, series>>

\* CREATE OR REPLACE VIEW trips_2024_unified_raw: binds both raw tables.
CleanCreateView ==
    /\ pc = "clean_view"
    /\ IF db.yellow_trips_2024.exists /\ db.green_trips_2024.exists
          THEN /\ db' = [db EXCEPT !.trips_2024_unified_raw = Table(<<>>)]
               /\ pc' = "clean_stage"
               /\ outcome' = outcome
          ELSE /\ db' = db
               /\ pc' = "idle"
               /\ outcome' = "clean_error"
    /\ UNCHANGED <<files, runs, before, cleanings, checks, report, series>>

\* CREATE OR REPLACE TABLE trips_2024_stage, read through the view.
CleanMaterializeStage ==
    /\ pc = "clean_stage"
    /\ db' = [db EXCEPT !.trips_2024_stage =
          Table(StageRows(UnifiedRaw(db.yellow_trips_2024.rows, db.green_trips_2024.rows)))]
    /\ pc' = "clean_dedup"
    /\ UNCHANGED <<files, outcome, runs, before, cleanings, checks, report, series>>

\* CREATE OR REPLACE TABLE trips_2024_dedup
CleanRemoveDuplicates ==
    /\ pc = "clean_dedup"
    /\ \E rn \in DedupNumberings(db.trips_2024_stage.rows) :
          db' = [db EXCEPT !.trips_2024_dedup =
                              Table(DedupRows(db.trips_2024_stage.rows, rn))]
    /\ pc' = "clean_rules"
    /\ UNCHANGED <<files, outcome, runs, before, cleanings, checks, report, series>>

\* CREATE OR REPLACE TABLE trips_2024_clean
CleanApplyRules ==
    /\ pc = "clean_rules"
    /\ db' = [db EXCEPT !.trips_2024_clean = Table(CleanRows(db.trips_2024_dedup.rows))]
    /\ pc' = "clean_verify"
    /\ UNCHANGED <<files, outcome, runs, before, cleanings, checks, report, series>>

\* The verification queries and the totals.
CleanVerify ==
    /\ pc = "clean_verify"
    /\ checks' = VerificationChecks(db.trips_2024_clean.rows)
    /\ cleanings' = IF cleanings = <<>> THEN <<Cleaning(db)>>
                    ELSE <<cleanings[Len(cleanings)], Cleaning(db)>>
    /\ pc' = "idle"
    /\ outcome' = "clean_ok"
    /\ UNCHANGED <<files, db, runs, before, report, series>>

\* A statement that builds a table raises for a cause outside the data (the
\* store is out of memory or disk, or unreachable): the statement leaves no
\* trace, the statements before it stay committed.
CleanStatementRaises ==
    /\ pc \in {"clean_stage", "clean_dedup", "clean_rules"}
    /\ pc' = "idle"
    /\ outcome' = "clean_error"
    /\ UNCHANGED <<files, db, runs, before, cleanings, checks, report, series>>

Next ==
    \/ LoadConnect
    \/ LoadDropYellow
    \/ LoadDropGreen
    \/ LoadDropEmissions
    \/ LoadCreateYellow
    \/ LoadCreateGreen
    \/ LoadCreateEmissions
    \/ CleanConnect
    \/ CleanCreateView
    \/ CleanMaterializeStage
    \/ CleanRemoveDuplicates
    \/ CleanApplyRules
    \/ CleanVerify
    \/ CleanStatementRaises

Spec == Init /\ [][Next]_vars

\* ------------------------------------------- derivation and analysis runs

\* The rides the analysis inputs are drawn from: every pickup with every
\* distance, half an hour long, one passenger.
RidesOf(pickups, distances) ==
    [i \in 1..(Len(pickups) * Len(distances)) |->
        LET pu == pickups[((i - 1) \div Len(distances)) + 1]
            dist == distances[((i - 1) % Len(distances)) + 1]
        IN  Ride(Val(pu), Val(pu + 30 * 60), Val(1), Val(dist), Val(10))]

\* Sunday 2024-01-07 23:00 and Friday 2024-03-15 00:10.
TSunday2300 == 6 * SecondsPerDay + 23 * SecondsPerHour

TMarch0010 == 74 * SecondsPerDay + 10 * 60

YellowTrips == RidesOf(<<T0900, T0905, TSunday2300, TMarch0010>>, <<2, 50, 2 * MaxTripMiles>>)

GreenTrips == RidesOf(<<T0900, TMarch0010>>, <<2, 2 * MaxTripMiles>>)

\* The data directories of the analysis runs: at most MaxTrips different
\* rides over the two classes, and an emissions file with or without the
\* green factor.
AnalysisFiles ==
    {[yellow |-> Found(YellowRows(y)), green |-> Found(GreenRows(g)),
      emissions |-> Found(e)] :
        y \in DistinctRideLists(YellowTrips, MaxTrips),
        g \in DistinctRideLists(GreenTrips, MaxTrips),
        e \in {EmissionsCsv, SubSeq(EmissionsCsv, 1, 1)}}

\* The database after load.py and clean.py completed on the files.
InitAnalysis ==
    /\ files \in {f \in AnalysisFiles : Len(f.yellow.rows) + Len(f.green.rows) <= MaxTrips}
    /\ db = CleanedDb(files)
    /\ pc = "idle"
    /\ outcome = "clean_ok"
    /\ runs = 0
    /\ before = db
    /\ cleanings = <<Cleaning(db)>>
    /\ checks = VerificationChecks(db.trips_2024_clean.rows)
    /\ report = NoReport
    /\ series = NoSeries

\* The derivation of trips_2024_transformed from trips_2024_clean and
\* vehicle_emissions.
Transform ==
    /\ pc = "idle" /\ runs < MaxRuns
    /\ db.trips_2024_clean.exists /\ db.vehicle_emissions.exists
    /\ runs' = runs + 1
    /\ before' = db
    /\ IF TransformRaises(db.trips_2024_clean.rows, db.vehicle_emissions.rows)
          THEN /\ db' = db
               /\ outcome' = "transform_error"
          ELSE /\ db' = [db EXCEPT !.trips_2024_transformed =
                            Table(TransformRows(db.trips_2024_clean.rows,
                                                db.vehicle_emissions.rows))]
               /\ outcome' = "transform_ok"
    /\ UNCHANGED <<files, pc, cleanings, checks, report, series>>

\* ---- analysis.py: main.  Nothing catches an exception here.

AnalysisConnect ==
    /\ pc = "idle" /\ runs < MaxRuns
    /\ pc' = "analysis_largest"
    /\ runs' = runs + 1
    /\ before' = db
    /\ outcome' = "running"
    /\ report' = NoReport
    /\ series' = NoSeries
    /\ UNCHANGED <<files, db, cleanings, checks>>

\* largest_sql and the loop that prints its rows.
AnalysisLargest ==
    /\ pc = "analysis_largest"
    /\ IF db.trips_2024_transformed.exists
          THEN /\ \E rn \in LargestNumberings(db.trips_2024_transformed.rows) :
                     report' = [kind |-> "largest",
                                rows |-> LargestRows(db.trips_2024_transformed.rows, rn)]
               /\ pc' = "analysis_hour"
               /\ outcome' = outcome
          ELSE /\ report' = report
               /\ pc' = "idle"
               /\ outcome' = "analysis_error"
    /\ UNCHANGED <<files, db, runs, before, cleanings, checks, series>>

\* heavy_light(label, column, label_map)
HeavyLight(at, column, label_map, next) ==
    /\ pc = at
    /\ LET st == Stats(db.trips_2024_transformed.rows, column)
       IN  \E rmax \in RmaxNumberings(st) : \E rmin \in RminNumberings(st) :
              report' = [kind |-> column,
                         rows |-> HeavyLightRows(st, rmax, rmin, label_map)]
    /\ pc' = next
    /\ UNCHANGED <<files, db, outcome, runs, before, cleanings, checks, series>>

AnalysisHourOfDay == HeavyLight("analysis_hour", "hour_of_day", HourLabels, "analysis_dow")

AnalysisDayOfWeek == HeavyLight("analysis_dow", "day_of_week", DOW_NAME, "analysis_week")

AnalysisWeekOfYear == HeavyLight("analysis_week", "week_of_year", NoLabels, "analysis_month")

AnalysisMonthOfYear ==
    HeavyLight("analysis_month", "month_of_year", MONTH_NAME, "analysis_monthly")

\* The monthly query, the series dictionary and the two series of the dual
\* axis panel; the figure is drawn and saved from them.
AnalysisMonthly ==
    /\ pc = "analysis_monthly"
    /\ LET d == FillSeries(EmptyDict, MonthlyRows(db.trips_2024_transformed.rows), 1)
       IN  series' = [dict |-> d,
                      y_yellow |-> DictGet(d, "yellow"),
                      y_green |-> DictGet(d, "green")]
    /\ pc' = "idle"
    /\ outcome' = "analysis_ok"
    /\ UNCHANGED <<files, db, runs, before, cleanings, checks, report>>

NextAnalysis ==
    \/ Transform
    \/ AnalysisConnect
    \/ AnalysisLargest
    \/ AnalysisHourOfDay
    \/ AnalysisDayOfWeek
    \/ AnalysisWeekOfYear
    \/ AnalysisMonthOfYear
    \/ AnalysisMonthly

SpecAnalysis == InitAnalysis /\ [][NextAnalysis]_vars

\* ----------------------------------------------------------------- claims

TheClasses == {"yellow", "green"}

Dimensions == {"hour_of_day", "day_of_week", "week_of_year", "month_of_year"}

\* The validity invariants of a clean trip.
ValidTrip(r) ==
    /\ r.passenger_count # NULL /\ TheVal(r.passenger_count) > 0
    /\ r.trip_distance_miles # NULL
    /\ 0 < TheVal(r.trip_distance_miles) /\ TheVal(r.trip_distance_miles) <= 100
    /\ r.duration_seconds # NULL
    /\ 0 <= TheVal(r.duration_seconds) /\ TheVal(r.duration_seconds) <= 86400

\* The columns of the dedup key other than pickup_datetime.
KeyButPickup(r) ==
    <<r.taxi_color, r.dropoff_datetime, r.pickup_location_id, r.dropoff_location_id,
      r.passenger_count, r.trip_distance_miles, r.fare_amount, r.tip_amount,
      r.total_amount, r.payment_type>>

\* The whole dedup key.
WholeKey(r) == <<r.pickup_datetime, KeyButPickup(r)>>

\* The rows of the clean table with the key of r.
CleanWithKey(r) ==
    {i \in 1..Len(db.trips_2024_clean.rows) :
        WholeKey(db.trips_2024_clean.rows[i]) = WholeKey(r)}

\* A cleaning has just completed: the stage, dedup and clean tables are its.
Cleaned == pc = "idle" /\ outcome = "clean_ok"

\* C1: every row of the clean table has passenger_count > 0,
\* 0 < trip_distance_miles <= 100 and 0 <= duration_seconds <= 86400, whatever
\* the input (NULL, zero and negative values included), and the verification
\* counts of a completed cleaning are all zero.
C1_CleanRowsValid ==
    /\ \A r \in Range(db.trips_2024_clean.rows) : ValidTrip(r)
    /\ Cleaned =>
          /\ checks.zero_passengers = 0 /\ checks.zero_miles = 0
          /\ checks.over_100_miles = 0 /\ checks.over_1_day = 0
          /\ checks.negative_duration = 0

\* A cleaning completed on a ride with a NULL passenger_count and a valid
\* ride, and kept one row.
C1_Witness ==
    /\ Cleaned /\ runs > 0
    /\ \E r \in Range(db.trips_2024_stage.rows) : r.passenger_count = NULL
    /\ Len(db.trips_2024_stage.rows) = 2
    /\ Len(db.trips_2024_clean.rows) = 1

\* C2: no two rows of the clean table agree on the whole dedup key, and every
\* key of the staged input that passes the validity filter is the key of
\* exactly one clean row.
C2_OneRowPerKey ==
    Cleaned =>
        /\ \A r \in Range(db.trips_2024_clean.rows) : Cardinality(CleanWithKey(r)) = 1
        /\ \A r \in Range(db.trips_2024_stage.rows) :
              ValidTrip(r) => Cardinality(CleanWithKey(r)) = 1
        /\ checks.duplicates_remaining = 0

\* A cleaning completed on an input holding a valid ride twice.
C2_Witness ==
    /\ Cleaned /\ runs > 0
    /\ \E i, j \in 1..Len(db.trips_2024_stage.rows) :
          /\ i # j
          /\ db.trips_2024_stage.rows[i] = db.trips_2024_stage.rows[j]
          /\ ValidTrip(db.trips_2024_stage.rows[i])
    /\ Len(db.trips_2024_clean.rows) = 1

\* Two staged rows that agree on every dedup-key column but the pickup
\* timestamp, the first picked up earlier, both valid.
PickupTwins(a, b) ==
    /\ KeyButPickup(a) = KeyButPickup(b)
    /\ a.pickup_datetime # NULL /\ b.pickup_datetime # NULL
    /\ TheVal(a.pickup_datetime) < TheVal(b.pickup_datetime)
    /\ ValidTrip(a) /\ ValidTrip(b)

\* C3 as stated: of two rows that agree on the dedup-key columns but have
\* different pickup timestamps (09:00 and 09:05), the cleaning keeps exactly
\* one, the one picked up first.
C3_EarliestPickupSurvives ==
    Cleaned =>
        \A a, b \in Range(db.trips_2024_stage.rows) :
            PickupTwins(a, b) =>
                /\ Cardinality(CleanWithKey(a) \cup CleanWithKey(b)) = 1
                /\ CleanWithKey(a) # {}

\* C3 amended: rows that differ in the pickup timestamp have different dedup
\* keys, and the cleaning keeps one row for each of them: the 09:00 row and
\* the 09:05 row are both in the clean table, once each.
C3_BothPickupsSurvive ==
    Cleaned =>
        \A a, b \in Range(db.trips_2024_stage.rows) :
            PickupTwins(a, b) =>
                /\ Cardinality(CleanWithKey(a)) = 1
                /\ Cardinality(CleanWithKey(b)) = 1
                /\ CleanWithKey(a) # CleanWithKey(b)

\* A cleaning completed on the 09:00 ride and its 09:05 twin.
C3_Witness ==
    /\ Cleaned /\ runs > 0
    /\ \E a, b \in Range(db.trips_2024_stage.rows) :
          /\ PickupTwins(a, b)
          /\ a.pickup_datetime = Val(T0900) /\ b.pickup_datetime = Val(T0905)

\* Rows of the clean table as staged rows: without the rn column.
StageColumns(rows) ==
    [i \in 1..Len(rows) |-> [c \in (DOMAIN rows[i]) \ {"rn"} |-> rows[i][c]]]

\* C4: dedup followed by the validity filter, applied to the clean table,
\* returns the rows of the clean table: none removed, none changed.
C4_CleaningIdempotent ==
    Cleaned =>
        LET again == StageColumns(db.trips_2024_clean.rows)
        IN  \A rn \in DedupNumberings(again) :
                StageColumns(CleanRows(DedupRows(again, rn))) = again

\* A cleaning completed that removed a repeat and an invalid row and kept a row.
C4_Witness ==
    /\ Cleaned /\ runs > 0
    /\ Len(db.trips_2024_stage.rows) > Len(db.trips_2024_dedup.rows)
    /\ Len(db.trips_2024_dedup.rows) >= Len(db.trips_2024_clean.rows)
    /\ Len(db.trips_2024_clean.rows) >= 1

\* C8: a script that ended in an error left every table it owns as it was
\* when the script started.
C8_NoPartialSuccess ==
    /\ (pc = "idle" /\ outcome = "load_error") =>
          /\ db.yellow_trips_2024 = before.yellow_trips_2024
          /\ db.green_trips_2024 = before.green_trips_2024
          /\ db.vehicle_emissions = before.vehicle_emissions
    /\ (pc = "idle" /\ outcome = "clean_error") =>
          /\ db.trips_2024_stage = before.trips_2024_stage
          /\ db.trips_2024_dedup = before.trips_2024_dedup
          /\ db.trips_2024_clean = before.trips_2024_clean

\* C10: two completed cleanings of the same raw tables leave the same set of
\* clean rows, whatever the tables held before and whichever rows the dedup
\* window numbered first.
C10_RerunSameCleanSet ==
    (Len(cleanings) = 2 /\ cleanings[1].raw = cleanings[2].raw) =>
        cleanings[1].rows = cleanings[2].rows

\* A cleaning re-run on unchanged raw tables that hold a ride twice, so that
\* the window had a choice.
C10_Witness ==
    /\ Cleaned /\ runs > 0
    /\ Len(cleanings) = 2 /\ cleanings[1].raw = cleanings[2].raw
    /\ Cardinality(DedupNumberings(db.trips_2024_stage.rows)) > 1
    /\ cleanings[2].rows # {}

\* ---- analysis claims

Transformed == db.trips_2024_transformed.rows

\* The transformed trips of a class, and those in one bucket of a dimension.
TripsOf(c) == {i \in 1..Len(Transformed) : Transformed[i].taxi_color = c}

BucketOf(c, dim, k) == {i \in TripsOf(c) : Transformed[i][dim] = k}

Co2 == [i \in 1..Len(Transformed) |-> TheVal(Transformed[i].trip_co2_kgs)]

\* The mean trip_co2_kgs of a bucket.
BucketMean(c, dim, k) ==
    Fraction(SumOver(BucketOf(c, dim, k), Co2), Cardinality(BucketOf(c, dim, k)))

ReportRowsOf(c) == {i \in 1..Len(report.rows) : report.rows[i].taxi_color = c}

\* C5: in a heavy/light report each class with trips has one row; its
\* heaviest pair is a bucket of the class with that bucket's own mean, no
\* bucket of the class has a larger mean; its lightest pair is a bucket with
\* its own mean, no bucket has a smaller one.
C5_HeavyLightExtremal ==
    report.kind \in Dimensions =>
        \A c \in TheClasses :
            TripsOf(c) # {} =>
                /\ Cardinality(ReportRowsOf(c)) = 1
                /\ \A n \in ReportRowsOf(c) :
                      LET row == report.rows[n]
                          dim == report.kind
                      IN  /\ BucketOf(c, dim, row.heaviest_k) # {}
                          /\ row.heaviest_avg = Val(BucketMean(c, dim, row.heaviest_k))
                          /\ BucketOf(c, dim, row.lightest_k) # {}
                          /\ row.lightest_avg = Val(BucketMean(c, dim, row.lightest_k))
                          /\ \A i \in TripsOf(c) :
                                LET m == BucketMean(c, dim, Transformed[i][dim])
                                IN  /\ ~FracLess(TheVal(row.heaviest_avg), m)
                                    /\ ~FracLess(m, TheVal(row.lightest_avg))

\* An hour-of-day report over a bucket of two trips with different emissions
\* and a second bucket: heaviest and lightest differ.
C5_Witness ==
    /\ report.kind = "hour_of_day"
    /\ \E n \in 1..Len(report.rows) :
          LET row == report.rows[n]
          IN  /\ row.heaviest_k # row.lightest_k
              /\ row.heaviest_avg # row.lightest_avg
              /\ \E i, j \in BucketOf(row.taxi_color, "hour_of_day", row.lightest_k) :
                    Co2[i] # Co2[j]

\* The staged trips of a class were all removed by the cleaning.
AllFilteredOut(c) ==
    /\ \E r \in Range(db.trips_2024_stage.rows) : r.taxi_color = c
    /\ \A r \in Range(db.trips_2024_clean.rows) : r.taxi_color # c

\* C6: the largest-trip report has exactly one record for each class with a
\* transformed trip, the record is a trip of the class and no trip of the
\* class has a larger trip_co2_kgs; a class whose trips were all filtered out
\* has no record in it, nor in any heavy/light report.
C6_LargestTripPerClass ==
    /\ report.kind = "largest" =>
          \A c \in TheClasses :
              /\ Cardinality(ReportRowsOf(c)) = IF TripsOf(c) = {} THEN 0 ELSE 1
              /\ \A n \in ReportRowsOf(c) :
                    \E i \in TripsOf(c) :
                        /\ report.rows[n].trip_co2_kgs = Transformed[i].trip_co2_kgs
                        /\ report.rows[n].trip_distance_miles = Transformed[i].trip_distance_miles
                        /\ report.rows[n].pickup_datetime = Transformed[i].pickup_datetime
                        /\ report.rows[n].dropoff_datetime = Transformed[i].dropoff_datetime
                        /\ \A j \in TripsOf(c) : Co2[j] <= Co2[i]
    /\ report.kind \in Dimensions \cup {"largest"} =>
          \A c \in TheClasses : AllFilteredOut(c) => ReportRowsOf(c) = {}

\* The largest-trip report over a class with a 2-mile and a 50-mile trip and a
\* class whose only trip, of 200 miles, was filtered out.
C6_Witness ==
    /\ report.kind = "largest"
    /\ AllFilteredOut("green")
    /\ \E i, j \in TripsOf("yellow") :
          /\ Transformed[i].trip_distance_miles = Val(2)
          /\ Transformed[j].trip_distance_miles = Val(50)
    /\ Len(report.rows) = 1
    /\ report.rows[1].trip_co2_kgs = Val(10000)

\* C7: the reports are a function of the transformed table: every numbering
\* the ranking windows may compute gives the largest trips and the heaviest
\* and lightest buckets that were reported.
C7_SelectionDeterministic ==
    /\ report.kind = "largest" =>
          \A rn \in LargestNumberings(Transformed) :
              LargestRows(Transformed, rn) = report.rows
    /\ report.kind \in Dimensions =>
          LET st == Stats(Transformed, report.kind)
          IN  \A rmax \in RmaxNumberings(st) : \A rmin \in RminNumberings(st) :
                  LET other == HeavyLightRows(st, rmax, rmin, NoLabels)
                  IN  \A n \in 1..Len(report.rows) :
                          /\ other[n].heaviest_k = report.rows[n].heaviest_k
                          /\ other[n].lightest_k = report.rows[n].lightest_k

\* The sum of trip_co2_kgs over the trips of a class in a month.
MonthTotal(c, m) == SumOver(BucketOf(c, "month_of_year", Val(m)), Co2)

\* C9: after the analysis, the series of every class with a transformed trip
\* has the 12 positions 0..11, position m-1 holds the class's total
\* trip_co2_kgs of month m, 0 for a month without trips, and the two series
\* of the dual-axis panel are those of yellow and green.
C9_MonthlySeries ==
    (pc = "idle" /\ outcome = "analysis_ok") =>
        /\ \A c \in TheClasses :
              TripsOf(c) # {} =>
                  /\ c \in DOMAIN series.dict
                  /\ DOMAIN series.dict[c] = 0..11
                  /\ \A m \in 1..12 : series.dict[c][m - 1] = MonthTotal(c, m)
        /\ DOMAIN series.y_yellow = 0..11
        /\ \A m \in 1..12 : series.y_yellow[m - 1] = MonthTotal("yellow", m)
        /\ DOMAIN series.y_green = 0..11
        /\ \A m \in 1..12 : series.y_green[m - 1] = MonthTotal("green", m)

\* The analysis completed over yellow trips in January (two of them) and
\* March and no green trip.
C9_Witness ==
    /\ pc = "idle" /\ outcome = "analysis_ok"
    /\ Cardinality(BucketOf("yellow", "month_of_year", Val(1))) = 2
    /\ BucketOf("yellow", "month_of_year", Val(3)) # {}
    /\ TripsOf("green") = {}
    /\ series.y_yellow[0] > series.y_yellow[2] /\ series.y_yellow[2] > 0
    /\ series.y_yellow[1] = 0

====
